---------------------------- MODULE Spec2Model ----------------------------
(***************************************************************************)
(* Model of the batch OCR pipeline of src/main.py: the download loop of    *)
(* main(), the per-image coroutine async_ocr_document_from_image() under   *)
(* the asyncio semaphore, the response parser, and the aggregation and     *)
(* reporting tail of main().                                               *)
(*                                                                         *)
(* asyncio runs one coroutine at a time and switches only at an await, so  *)
(* no action below spans an await at which another coroutine could run.    *)
(***************************************************************************)
EXTENDS Integers, Sequences, FiniteSets, TLC

(***************************************************************************)
(* Bounds of the model.                                                    *)
(***************************************************************************)
\* largest number of files the Drive listing returns
MaxFiles == 3
\* src/main.py:52 sets the cap to 5; the model runs it scaled down so that a
\* batch of MaxFiles images fills it
CONCURRENCY_OCR == 2
\* largest number of tokens of prose before, and after, the payload of a response
MaxProse == 2

\* Python's None, and a value that is not None
None == [none |-> TRUE]
Some(v) == [none |-> FALSE, v |-> v]

(***************************************************************************)
(* Response text.  A text is a sequence of tokens:                         *)
(*   "T" three backticks      "j" the word json      "s" whitespace        *)
(*   "w" a prose word         "[" "]" "{" "}"        "c" a comma           *)
(*   "k" a quoted key and its colon      "n" a scalar literal              *)
(*   "R1" "R2" object literals of part records                             *)
(***************************************************************************)
Fields == <<"part_no", "part_name", "car_model", "car_year", "retail_price", "wholesale_price">>

\* the object literal R1 has every field, R2 only the first two
RecordOf(tok) ==
    IF tok = "R1"
    THEN [part_no |-> "P1", part_name |-> "name1", car_model |-> "m1",
          car_year |-> "y1", retail_price |-> "r1", wholesale_price |-> "w1"]
    ELSE [part_no |-> "P2", part_name |-> "name2"]

Dict(f) == [tag |-> "dict", get |-> f]
List(items) == [tag |-> "list", items |-> items]
Scalar == [tag |-> "scalar"]
Bad == [ok |-> FALSE, val |-> Scalar, next |-> 0]
Good(v, n) == [ok |-> TRUE, val |-> v, next |-> n]

RECURSIVE SkipWs(_, _)
SkipWs(t, i) == IF i <= Len(t) /\ t[i] = "s" THEN SkipWs(t, i + 1) ELSE i

\* str.strip(): leading and trailing whitespace removed
RECURSIVE RStrip(_)
RStrip(t) == IF Len(t) > 0 /\ t[Len(t)] = "s" THEN RStrip(SubSeq(t, 1, Len(t) - 1)) ELSE t
Strip(t) == LET r == RStrip(t) IN SubSeq(r, SkipWs(r, 1), Len(r))

(***************************************************************************)
(* json.loads on a token string: a recursive-descent decoder of            *)
(* value := object literal | scalar | array | mapping.                     *)
(***************************************************************************)
RECURSIVE ParseValue(_, _), ParseElems(_, _, _), ParseMembers(_, _)
ParseValue(t, i0) ==
    LET i == SkipWs(t, i0) IN
    IF i > Len(t) THEN Bad
    ELSE IF t[i] \in {"R1", "R2"} THEN Good(Dict(RecordOf(t[i])), i + 1)
    ELSE IF t[i] = "n" THEN Good(Scalar, i + 1)
    ELSE IF t[i] = "[" THEN
        LET j == SkipWs(t, i + 1) IN
        IF j <= Len(t) /\ t[j] = "]" THEN Good(List(<<>>), j + 1)
        ELSE ParseElems(t, i + 1, <<>>)
    ELSE IF t[i] = "{" THEN
        LET j == SkipWs(t, i + 1) IN
        IF j <= Len(t) /\ t[j] = "}" THEN Good(Dict(<<>>), j + 1)
        ELSE ParseMembers(t, i + 1)
    ELSE Bad

\* the elements of an array after its "[" or after a comma, up to its "]"
ParseElems(t, i, acc) ==
    LET v == ParseValue(t, i) IN
    IF ~v.ok THEN Bad
    ELSE LET j == SkipWs(t, v.next) IN
         IF j > Len(t) THEN Bad
         ELSE IF t[j] = "c" THEN ParseElems(t, j + 1, Append(acc, v.val))
         ELSE IF t[j] = "]" THEN Good(List(Append(acc, v.val)), j + 1)
         ELSE Bad

\* the members of a mapping; its keys are none of the record fields
ParseMembers(t, i0) ==
    LET i == SkipWs(t, i0) IN
    IF i > Len(t) \/ t[i] # "k" THEN Bad
    ELSE LET v == ParseValue(t, i + 1) IN
         IF ~v.ok THEN Bad
         ELSE LET j == SkipWs(t, v.next) IN
              IF j > Len(t) THEN Bad
              ELSE IF t[j] = "c" THEN ParseMembers(t, j + 1)
              ELSE IF t[j] = "}" THEN Good(Dict(<<>>), j + 1)
              ELSE Bad

\* json.loads: one value, then nothing but whitespace; FALSE .ok is JSONDecodeError
json_loads(t) ==
    LET v == ParseValue(t, 1) IN
    IF v.ok /\ SkipWs(t, v.next) > Len(t) THEN v ELSE Bad

(***************************************************************************)
(* re.search at line 172.  In tokens the pattern is                        *)
(*     T j s.. "[" group1 "]" s.. T   or   "[" group2 "]"                  *)
(* where s.. is any run of whitespace and a group is a greedy run of any   *)
(* tokens (re.DOTALL).                                                     *)
(***************************************************************************)
\* positions e > q of a "]" that is followed by whitespace and a fence
FencedEnds(t, q) ==
    {e \in (q + 1)..Len(t) :
        /\ t[e] = "]"
        /\ LET a == SkipWs(t, e + 1) IN a <= Len(t) /\ t[a] = "T"}

Max(S) == CHOOSE x \in S : \A y \in S : y <= x
Min(S) == CHOOSE x \in S : \A y \in S : x <= y

\* the first alternative tried at position p: group 1, greedy
MatchFenced(t, p) ==
    IF p + 1 <= Len(t) /\ t[p] = "T" /\ t[p + 1] = "j"
    THEN LET q == SkipWs(t, p + 2) IN
         IF q <= Len(t) /\ t[q] = "[" /\ FencedEnds(t, q) # {}
         THEN [ok |-> TRUE, group |-> 1, text |-> SubSeq(t, q + 1, Max(FencedEnds(t, q)) - 1)]
         ELSE [ok |-> FALSE, group |-> 0, text |-> <<>>]
    ELSE [ok |-> FALSE, group |-> 0, text |-> <<>>]

\* the second alternative tried at position p: group 2, greedy to the last "]"
MatchBare(t, p) ==
    LET ends == {e \in (p + 1)..Len(t) : t[e] = "]"} IN
    IF t[p] = "[" /\ ends # {}
    THEN [ok |-> TRUE, group |-> 2, text |-> SubSeq(t, p + 1, Max(ends) - 1)]
    ELSE [ok |-> FALSE, group |-> 0, text |-> <<>>]

MatchAt(t, p) == IF MatchFenced(t, p).ok THEN MatchFenced(t, p) ELSE MatchBare(t, p)

\* the leftmost position where either alternative matches
re_search(t) ==
    LET starts == {p \in 1..Len(t) : MatchAt(t, p).ok} IN
    IF starts = {} THEN [ok |-> FALSE, group |-> 0, text |-> <<>>]
    ELSE MatchAt(t, Min(starts))

\* lines 173-178: an empty group is falsy and leaves json_string None
json_string(t) ==
    LET match == re_search(t) IN
    IF match.ok /\ match.text # <<>> THEN Some(<<"[">> \o match.text \o <<"]">>) ELSE None

IsListOfDicts(v) ==
    /\ v.tag = "list"
    /\ \A n \in 1..Len(v.items) : v.items[n].tag = "dict"

\* lines 170-200: extracted_data for a response text; None on every failure
extracted_data(text) ==
    IF text = None THEN None
    ELSE LET js == json_string(Strip(text.v)) IN
         IF js = None THEN None
         ELSE LET d == json_loads(js.v) IN
              IF d.ok /\ IsListOfDicts(d.val)
              THEN Some([n \in 1..Len(d.val.items) |-> d.val.items[n].get])
              ELSE None

(***************************************************************************)
(* Inputs of a run.                                                        *)
(***************************************************************************)
\* file names in the Drive folder; two files may carry the same name
FileNames == {"a.png", "b.png"}

\* item.get('webViewLink') of the n-th listed file
web_view_link(n) == <<"url1", "url2", "url3", "url4", "url5", "url6">>[n]

\* usage_metadata as <<prompt_token_count, candidates_token_count, total_token_count>>
Usages == <<None, Some(<<2, 1, 3>>)>>

\* response.text of the responses the backend may return
TwoRecords == Some(<<"T", "j", "s", "[", "R1", "c", "R2", "]", "s", "T">>)
NoBrackets == Some(<<"w", "w">>)
Malformed == Some(<<"[", "R1", "c", "]">>)
WrongShape == Some(<<"[", "R1", "c", "n", "]">>)

\* the responses the backend may return: each text with usage, and a response
\* with neither text nor usage_metadata
Responses == <<
    [text |-> TwoRecords, usage_metadata |-> Usages[2]],
    [text |-> NoBrackets, usage_metadata |-> Usages[2]],
    [text |-> Malformed, usage_metadata |-> Usages[2]],
    [text |-> WrongShape, usage_metadata |-> Usages[2]],
    [text |-> None, usage_metadata |-> None] >>

NoResponse == [text |-> None, usage_metadata |-> None]
NoResult == [image_path |-> "", extracted_data |-> None, usage_metadata |-> None]

\* every sequence over S of length up to n
RECURSIVE SeqsUpTo(_, _)
SeqsUpTo(S, n) ==
    IF n = 0 THEN {<<>>}
    ELSE LET shorter == SeqsUpTo(S, n - 1) IN
         shorter \cup {Append(q, x) : q \in {r \in shorter : Len(r) = n - 1}, x \in S}

\* a well-formed array of part records inside a json fence
FencedPayloads == {
    <<"T", "j", "s", "[", "R1", "c", "R2", "]", "s", "T">>,
    <<"T", "j", "[", "R2", "]", "T">> }

\* prose around the payload: words, whitespace and bracket characters
ProseTokens == {"w", "s", "[", "]"}
Prose == SeqsUpTo(ProseTokens, MaxProse)

\* texts whose top-level value is a mapping: one holding an array of part records,
\* bare and fenced, one holding a scalar, and a single part record
MappingTexts == {
    <<"{", "k", "[", "R1", "c", "R2", "]", "}">>,
    <<"T", "j", "s", "{", "k", "[", "R1", "]", "}", "s", "T">>,
    <<"{", "k", "n", "}">>,
    <<"R1">> }

\* texts without a bracketed block
BracketlessTexts == SeqsUpTo({"w", "s", "n"}, 2) \cup {<<"T", "j", "s", "T">>}

\* a well-formed array of part records without a fence
BareArrays == {<<"[", "R1", "c", "R2", "]">>, <<"[", "R2", "]">>}

\* a bare array after prose without brackets and before any prose
BareTexts ==
    {pre \o b \o post :
        pre \in SeqsUpTo({"w", "s"}, MaxProse), b \in BareArrays, post \in Prose}

ParserTexts ==
    {pre \o p \o post : pre \in Prose, p \in FencedPayloads, post \in Prose}
        \cup MappingTexts \cup BracketlessTexts \cup BareTexts

\* every text a backend of the model answers with
ResponseTexts ==
    {Responses[n].text : n \in 1..Len(Responses)} \cup {Some(t) : t \in ParserTexts}

\* lines 170-200 applied to each of these texts, tabulated
parsed == [text \in ResponseTexts |-> extracted_data(text)]

VARIABLES
    drive_image_files_info, \* the listed files, as their names, in listing order
    mpc,                    \* where main() stands
    idx,                    \* the file the download loop is at
    scratch,                \* TEMP_DOWNLOAD_DIR: the state of the file of each name
    downloaded_files_map,   \* the set of <<url, local path>> of the fetched files
    ocr_tasks,              \* the launched tasks, as [image_path, url]
    tpc,                    \* where each task stands
    exit_path,              \* how each task left: "no_file", "normalize_failed", "raised"
                            \* or "returned"; "running" until then
    response,               \* the response (or the error's response) each task got
    result,                 \* the tuple each task returned
    overtaken,              \* whether some task finished before an earlier-launched one
    generate_content_calls, \* how many times each task has called model.generate_content
    hung,                   \* the tasks whose call to model.generate_content never returns
    semaphore_ocr,          \* [value, waiters] of the asyncio.Semaphore
    results_with_urls,      \* what gather returned
    document_ocr_results, sheets_data_to_write,
    total_tokens,           \* <<total_prompt_tokens, total_candidates_tokens, total_total_tokens>>
    failed_images_count, successful_images_count,
    markdown,               \* the report file: [state, sections]
    sheet,                  \* the tabular sink: [state, rows handed to the writer, found
                            \* in the sheet when it was read, content of the sheet after
                            \* the writer, header_writes issued]
    summary,                \* the printed summary, or None
    warning                 \* whether the failure warning was printed

vars == <<drive_image_files_info, mpc, idx, scratch, downloaded_files_map, ocr_tasks,
          tpc, exit_path, response, result, overtaken, generate_content_calls, hung,
          semaphore_ocr, results_with_urls, document_ocr_results,
          sheets_data_to_write, total_tokens, failed_images_count,
          successful_images_count, markdown, sheet, summary, warning>>

mainVars == <<drive_image_files_info, mpc, idx, scratch, downloaded_files_map, ocr_tasks>>
taskVars == <<tpc, exit_path, response, result, overtaken, generate_content_calls, hung,
              semaphore_ocr>>
aggVars == <<results_with_urls, document_ocr_results, sheets_data_to_write, total_tokens,
             failed_images_count, successful_images_count>>
sinkVars == <<markdown, sheet, summary, warning>>

Tasks == 1..Len(ocr_tasks)

Init ==
    \* names are interchangeable: the first listed file is taken to be a.png
    /\ drive_image_files_info \in
           {s \in SeqsUpTo(FileNames, MaxFiles) : s = <<>> \/ s[1] = "a.png"}
    /\ mpc = "list"
    /\ idx = 1
    /\ scratch = [f \in FileNames |-> "absent"]
    /\ downloaded_files_map = {}
    /\ ocr_tasks = <<>>
    /\ tpc = <<>>
    /\ exit_path = <<>>
    /\ response = <<>>
    /\ result = <<>>
    /\ overtaken = FALSE
    /\ generate_content_calls = <<>>
    /\ hung = {}
    /\ semaphore_ocr = [value |-> CONCURRENCY_OCR, waiters |-> <<>>]
    /\ results_with_urls = <<>>
    /\ document_ocr_results = <<>>
    /\ sheets_data_to_write = <<>>
    /\ total_tokens = <<0, 0, 0>>
    /\ failed_images_count = 0
    /\ successful_images_count = 0
    /\ markdown = [state |-> "absent", sections |-> <<>>]
    /\ sheet = [state |-> "untouched", rows |-> <<>>, found |-> <<>>, content |-> <<>>,
                header_writes |-> 0]
    /\ summary = None
    /\ warning = FALSE

(***************************************************************************)
(* main(): the listing and the download loop, lines 448-474.               *)
(***************************************************************************)
\* lines 448-451: nothing listed, main returns
NoImages ==
    /\ mpc = "list"
    /\ drive_image_files_info = <<>>
    /\ mpc' = "returned"
    /\ UNCHANGED <<drive_image_files_info, idx, scratch, downloaded_files_map, ocr_tasks>>
    /\ UNCHANGED <<taskVars, aggVars, sinkVars>>

\* lines 453-458: the semaphore is made and the loop entered
StartBatch ==
    /\ mpc = "list"
    /\ drive_image_files_info # <<>>
    /\ mpc' = "loop"
    /\ UNCHANGED <<drive_image_files_info, idx, scratch, downloaded_files_map, ocr_tasks>>
    /\ UNCHANGED <<taskVars, aggVars, sinkVars>>

\* lines 463-464 and 304-313: the scratch file is opened for writing (truncated)
\* and main awaits the first chunk
DownloadStart ==
    /\ mpc = "loop"
    /\ idx <= Len(drive_image_files_info)
    /\ scratch' = [scratch EXCEPT ![drive_image_files_info[idx]] = "partial"]
    /\ mpc' = "downloading"
    /\ UNCHANGED <<drive_image_files_info, idx, downloaded_files_map, ocr_tasks>>
    /\ UNCHANGED <<taskVars, aggVars, sinkVars>>

\* lines 313-322: a chunk request raises; download returns None and no task is made.
\* The file opened at line 309 stays behind, incomplete
DownloadFail ==
    /\ mpc = "downloading"
    /\ idx' = idx + 1
    /\ mpc' = "loop"
    /\ UNCHANGED <<drive_image_files_info, scratch, downloaded_files_map, ocr_tasks>>
    /\ UNCHANGED <<taskVars, aggVars, sinkVars>>

\* lines 313-316 and 465-474: the last chunk arrives, the task is created
DownloadDone ==
    /\ mpc = "downloading"
    /\ scratch' = [scratch EXCEPT ![drive_image_files_info[idx]] = "complete"]
    /\ downloaded_files_map' =
           downloaded_files_map \cup {<<web_view_link(idx), drive_image_files_info[idx]>>}
    /\ ocr_tasks' = Append(ocr_tasks, [image_path |-> drive_image_files_info[idx],
                                       url |-> web_view_link(idx)])
    /\ tpc' = Append(tpc, "created")
    /\ exit_path' = Append(exit_path, "running")
    /\ response' = Append(response, NoResponse)
    /\ result' = Append(result, NoResult)
    /\ generate_content_calls' = Append(generate_content_calls, 0)
    /\ idx' = idx + 1
    /\ mpc' = "loop"
    /\ UNCHANGED <<drive_image_files_info, overtaken, hung, semaphore_ocr>>
    /\ UNCHANGED <<aggVars, sinkVars>>

(***************************************************************************)
(* asyncio.Semaphore, as used by "async with semaphore" at line 126.       *)
(***************************************************************************)
\* variant: the task enters the block whether or not a permit is free
AcquireTpcNoWait(i) == [tpc EXCEPT ![i] = "normalizing"]

\* acquire() by task i: a free permit is taken at once, otherwise i queues
AcquireTpc(i) ==
    IF semaphore_ocr.value > 0 /\ semaphore_ocr.waiters = <<>>
    THEN [tpc EXCEPT ![i] = "normalizing"]
    ELSE [tpc EXCEPT ![i] = "waiting"]

\* variant: entering the block takes no permit
AcquireSemNoPermit(i) ==
    IF semaphore_ocr.value > 0 /\ semaphore_ocr.waiters = <<>>
    THEN semaphore_ocr
    ELSE [semaphore_ocr EXCEPT !.waiters = Append(@, i)]

AcquireSem(i) ==
    IF semaphore_ocr.value > 0 /\ semaphore_ocr.waiters = <<>>
    THEN [semaphore_ocr EXCEPT !.value = @ - 1]
    ELSE [semaphore_ocr EXCEPT !.waiters = Append(@, i)]

\* variant: leaving the block adds a permit even when the permit is handed on
ReleaseSemNoHandOff ==
    [semaphore_ocr EXCEPT !.value = @ + 1, !.waiters = IF @ = <<>> THEN @ ELSE Tail(@)]

\* release() on leaving the block: the permit goes to the first waiter, which
\* resumes at line 127 and runs to its first await inside preprocess_image_for_a4
ReleaseSem ==
    IF semaphore_ocr.waiters # <<>>
    THEN [semaphore_ocr EXCEPT !.waiters = Tail(@)]
    ELSE [semaphore_ocr EXCEPT !.value = @ + 1]

\* variant: the first waiter is taken off the queue but never resumed
ReleaseTpcLostWakeUp(i) == [tpc EXCEPT ![i] = "done"]

\* task i leaves the block and is done
ReleaseTpc(i) ==
    IF semaphore_ocr.waiters # <<>>
    THEN [tpc EXCEPT ![i] = "done", ![Head(semaphore_ocr.waiters)] = "normalizing"]
    ELSE [tpc EXCEPT ![i] = "done"]

\* history: task i finishes while a task launched before it is still running
Overtakes(i) == overtaken \/ \E j \in 1..(i - 1) : tpc[j] # "done"

(***************************************************************************)
(* async_ocr_document_from_image(), lines 112-248.                         *)
(***************************************************************************)
\* the event loop runs a task only while main is suspended: inside the await of
\* a download (line 313) or in gather (line 476)
MainAwaits ==
    \/ mpc = "downloading"
    \/ mpc = "loop" /\ idx > Len(drive_image_files_info)

\* lines 117-132: the task starts.  gemini_model is never None here (main exits at
\* line 416 otherwise); a missing file returns early without the semaphore
TaskStart(i) ==
    /\ MainAwaits
    /\ tpc[i] = "created"
    /\ IF scratch[ocr_tasks[i].image_path] = "absent"
       THEN /\ tpc' = [tpc EXCEPT ![i] = "done"]
            /\ exit_path' = [exit_path EXCEPT ![i] = "no_file"]
            /\ result' = [result EXCEPT ![i] =
                   [image_path |-> ocr_tasks[i].image_path,
                    extracted_data |-> None, usage_metadata |-> None]]
            /\ UNCHANGED semaphore_ocr
       ELSE /\ tpc' = AcquireTpc(i)
            /\ semaphore_ocr' = AcquireSem(i)
            /\ UNCHANGED <<result, exit_path>>
    /\ UNCHANGED <<response, overtaken, generate_content_calls, hung>>
    /\ UNCHANGED <<mainVars, aggVars, sinkVars>>

\* lines 132-168: the image is normalized and the inference call is started in its
\* thread.  The call has no timeout: hangs tells whether it will ever come back
Normalized(i, hangs) ==
    /\ MainAwaits
    /\ tpc[i] = "normalizing"
    /\ tpc' = [tpc EXCEPT ![i] = "inferring"]
    /\ generate_content_calls' = [generate_content_calls EXCEPT ![i] = @ + 1]
    /\ hung' = IF hangs THEN hung \cup {i} ELSE hung
    /\ UNCHANGED <<exit_path, response, result, overtaken, semaphore_ocr>>
    /\ UNCHANGED <<mainVars, aggVars, sinkVars>>

\* variant: an instance whose normalization failed gives its permit back and is
\* started again from the beginning
NormalizeFailStartsOver(i) ==
    /\ MainAwaits
    /\ tpc[i] = "normalizing"
    /\ tpc' = [ReleaseTpc(i) EXCEPT ![i] = "created"]
    /\ semaphore_ocr' = ReleaseSem
    /\ UNCHANGED <<exit_path, response, result, overtaken, generate_content_calls, hung>>
    /\ UNCHANGED <<mainVars, aggVars, sinkVars>>

\* variant: the failure path leaves the block without giving the permit back
NormalizeFailKeepsPermit(i) ==
    /\ MainAwaits
    /\ tpc[i] = "normalizing"
    /\ result' = [result EXCEPT ![i] =
           [image_path |-> ocr_tasks[i].image_path,
            extracted_data |-> None, usage_metadata |-> None]]
    /\ tpc' = [tpc EXCEPT ![i] = "done"]
    /\ overtaken' = Overtakes(i)
    /\ exit_path' = [exit_path EXCEPT ![i] = "normalize_failed"]
    /\ UNCHANGED <<response, generate_content_calls, hung, semaphore_ocr>>
    /\ UNCHANGED <<mainVars, aggVars, sinkVars>>

\* line 132 raises (the image cannot be opened or resized); lines 234-238
NormalizeFail(i) ==
    /\ MainAwaits
    /\ tpc[i] = "normalizing"
    /\ result' = [result EXCEPT ![i] =
           [image_path |-> ocr_tasks[i].image_path,
            extracted_data |-> None, usage_metadata |-> None]]
    /\ tpc' = ReleaseTpc(i)
    /\ semaphore_ocr' = ReleaseSem
    /\ overtaken' = Overtakes(i)
    /\ exit_path' = [exit_path EXCEPT ![i] = "normalize_failed"]
    /\ UNCHANGED <<response, generate_content_calls, hung>>
    /\ UNCHANGED <<mainVars, aggVars, sinkVars>>

\* lines 165-213 and 248: the call returns resp; the text is parsed, the usage read
InferReturn(i, resp) ==
    /\ MainAwaits
    /\ tpc[i] = "inferring" /\ i \notin hung
    /\ response' = [response EXCEPT ![i] = resp]
    /\ result' = [result EXCEPT ![i] =
           [image_path |-> ocr_tasks[i].image_path,
            extracted_data |-> parsed[resp.text],
            usage_metadata |-> resp.usage_metadata]]
    /\ tpc' = ReleaseTpc(i)
    /\ semaphore_ocr' = ReleaseSem
    /\ overtaken' = Overtakes(i)
    /\ exit_path' = [exit_path EXCEPT ![i] = "returned"]
    /\ UNCHANGED <<generate_content_calls, hung>>
    /\ UNCHANGED <<mainVars, aggVars, sinkVars>>

\* variant: the error escapes the task and the batch cancels the tasks still running
InferRaiseCancelsSiblings(i, usage) ==
    /\ MainAwaits
    /\ tpc[i] = "inferring" /\ i \notin hung
    /\ exit_path' = [j \in Tasks |-> IF tpc[j] = "done" THEN exit_path[j] ELSE "raised"]
    /\ response' = [response EXCEPT ![i] = [text |-> None, usage_metadata |-> usage]]
    /\ result' = [j \in Tasks |->
           IF tpc[j] = "done" THEN result[j]
           ELSE [image_path |-> ocr_tasks[j].image_path,
                 extracted_data |-> None, usage_metadata |-> None]]
    /\ tpc' = [j \in Tasks |-> "done"]
    /\ semaphore_ocr' = [value |-> CONCURRENCY_OCR, waiters |-> <<>>]
    /\ overtaken' = Overtakes(i)
    /\ UNCHANGED <<generate_content_calls, hung>>
    /\ UNCHANGED <<mainVars, aggVars, sinkVars>>

\* variant: the usage attached to the error is dropped
InferRaiseNoSalvage(i, usage) ==
    /\ MainAwaits
    /\ tpc[i] = "inferring" /\ i \notin hung
    /\ exit_path' = [exit_path EXCEPT ![i] = "raised"]
    /\ response' = [response EXCEPT ![i] = [text |-> None, usage_metadata |-> usage]]
    /\ result' = [result EXCEPT ![i] =
           [image_path |-> ocr_tasks[i].image_path,
            extracted_data |-> None, usage_metadata |-> None]]
    /\ tpc' = ReleaseTpc(i)
    /\ semaphore_ocr' = ReleaseSem
    /\ overtaken' = Overtakes(i)
    /\ UNCHANGED <<generate_content_calls, hung>>
    /\ UNCHANGED <<mainVars, aggVars, sinkVars>>

\* variant: a call that raised is issued once more before the instance gives up
InferRaiseRetriesOnce(i, usage) ==
    /\ MainAwaits
    /\ tpc[i] = "inferring" /\ i \notin hung
    /\ IF generate_content_calls[i] < 2
       THEN /\ generate_content_calls' = [generate_content_calls EXCEPT ![i] = @ + 1]
            /\ UNCHANGED <<tpc, exit_path, response, result, overtaken, semaphore_ocr>>
       ELSE /\ exit_path' = [exit_path EXCEPT ![i] = "raised"]
            /\ response' = [response EXCEPT ![i] = [text |-> None, usage_metadata |-> usage]]
            /\ result' = [result EXCEPT ![i] =
                   [image_path |-> ocr_tasks[i].image_path,
                    extracted_data |-> None, usage_metadata |-> usage]]
            /\ tpc' = ReleaseTpc(i)
            /\ semaphore_ocr' = ReleaseSem
            /\ overtaken' = Overtakes(i)
            /\ UNCHANGED generate_content_calls
    /\ UNCHANGED hung
    /\ UNCHANGED <<mainVars, aggVars, sinkVars>>

\* lines 215-232: the call (or any line up to 213) raises; usage is the usage of
\* the error's response, if it has one
InferRaise(i, usage) ==
    /\ MainAwaits
    /\ tpc[i] = "inferring" /\ i \notin hung
    /\ exit_path' = [exit_path EXCEPT ![i] = "raised"]
    /\ response' = [response EXCEPT ![i] = [text |-> None, usage_metadata |-> usage]]
    /\ result' = [result EXCEPT ![i] =
           [image_path |-> ocr_tasks[i].image_path,
            extracted_data |-> None, usage_metadata |-> usage]]
    /\ tpc' = ReleaseTpc(i)
    /\ semaphore_ocr' = ReleaseSem
    /\ overtaken' = Overtakes(i)
    /\ UNCHANGED <<generate_content_calls, hung>>
    /\ UNCHANGED <<mainVars, aggVars, sinkVars>>


(***************************************************************************)
(* main(): the join and the aggregation, lines 476-548.                    *)
(***************************************************************************)
\* variant: the join returns as soon as one task has finished
FirstSettled == \E i \in Tasks : tpc[i] = "done"

\* line 476: gather returns once every task has finished
AllSettled == \A i \in Tasks : tpc[i] = "done"

\* variant: only the results that carry data are collected
GatherResultsWithData ==
    SelectSeq([i \in Tasks |-> result[i]],
              LAMBDA r : r.extracted_data # None /\ r.extracted_data.v # <<>>)

\* line 476: gather returns the tasks' results in the order of ocr_tasks
GatherResults == [i \in Tasks |-> result[i]]

\* line 496; one string for the whole run
current_time_str == "ts"
PLACEHOLDER_NOTE == "cannot process this image"

\* dict.get(key, "N/A")
Get(item, key) == IF key \in DOMAIN item THEN item[key] ELSE "N/A"

\* lines 523-532
RowData(item, original_drive_url) ==
    <<Get(item, "part_no"), Get(item, "part_name"), Get(item, "car_model"),
      Get(item, "car_year"), Get(item, "retail_price"), Get(item, "wholesale_price"),
      original_drive_url, current_time_str>>

\* lines 536-542
PlaceholderRow(image_filename, original_drive_url) ==
    <<image_filename, PLACEHOLDER_NOTE, "", "", "", "", original_drive_url, current_time_str>>

\* line 518: not None and not empty
HasData(res) == res.extracted_data # None /\ res.extracted_data.v # <<>>

\* variant: the URL is looked up by local path in the inverted download map of
\* line 479, which keeps the last file fetched to that path
UrlByLocalPath(i) ==
    web_view_link(Max({n \in 1..Len(drive_image_files_info) :
        <<web_view_link(n), ocr_tasks[i].image_path>> \in downloaded_files_map}))

\* line 499: the Drive URL kept with the i-th task
original_drive_url(i) == ocr_tasks[i].url

\* variant: an image without data adds no row
RowsOfDataOnly(res, url) ==
    IF HasData(res)
    THEN [n \in 1..Len(res.extracted_data.v) |-> RowData(res.extracted_data.v[n], url)]
    ELSE <<>>

\* lines 518-543: the rows the i-th result adds
RowsOf(res, url) ==
    IF HasData(res)
    THEN [n \in 1..Len(res.extracted_data.v) |-> RowData(res.extracted_data.v[n], url)]
    ELSE <<PlaceholderRow(res.image_path, url)>>

\* lines 545-548
AddUsage(tot, usage) ==
    IF usage # None
    THEN <<tot[1] + usage.v[1], tot[2] + usage.v[2], tot[3] + usage.v[3]>>
    ELSE tot

\* variant: an image without data is not counted as failed when it carries usage
RECURSIVE AggregatedMiscount(_, _)
AggregatedMiscount(res, n) ==
    IF n = 0
    THEN [docs |-> <<>>, rows |-> <<>>, tokens |-> <<0, 0, 0>>, failed |-> 0, ok |-> 0]
    ELSE LET a == AggregatedMiscount(res, n - 1)
             r == res[n]
         IN [docs |-> IF HasData(r)
                      THEN Append(a.docs, [filename |-> r.image_path, data |-> r.extracted_data.v])
                      ELSE a.docs,
             rows |-> a.rows \o RowsOf(r, original_drive_url(n)),
             tokens |-> AddUsage(a.tokens, r.usage_metadata),
             failed |-> IF HasData(r) \/ r.usage_metadata # None THEN a.failed ELSE a.failed + 1,
             ok |-> IF HasData(r) THEN a.ok + 1 ELSE a.ok]

\* lines 486-548: the loop over the results, after its first n rounds.  The branch
\* of lines 502-513 for a result that is an exception is never taken: the
\* coroutine catches every Exception at line 234
RECURSIVE Aggregated(_, _)
Aggregated(res, n) ==
    IF n = 0
    THEN [docs |-> <<>>, rows |-> <<>>, tokens |-> <<0, 0, 0>>, failed |-> 0, ok |-> 0]
    ELSE LET a == Aggregated(res, n - 1)
             r == res[n]
         IN [docs |-> IF HasData(r)
                      THEN Append(a.docs, [filename |-> r.image_path, data |-> r.extracted_data.v])
                      ELSE a.docs,
             rows |-> a.rows \o RowsOf(r, original_drive_url(n)),
             tokens |-> AddUsage(a.tokens, r.usage_metadata),
             failed |-> IF HasData(r) THEN a.failed ELSE a.failed + 1,
             ok |-> IF HasData(r) THEN a.ok + 1 ELSE a.ok]

\* lines 476-550: every download is over and every launched task has finished;
\* gather returns and main runs on, without an await, through the aggregation
JoinAndAggregate ==
    /\ mpc = "loop"
    /\ idx > Len(drive_image_files_info)
    /\ AllSettled
    /\ results_with_urls' = GatherResults
    /\ \E a \in {Aggregated(GatherResults, Len(GatherResults))} :
        /\ document_ocr_results' = a.docs
        /\ sheets_data_to_write' = a.rows
        /\ total_tokens' = a.tokens
        /\ failed_images_count' = a.failed
        /\ successful_images_count' = a.ok
    /\ mpc' = "report"
    /\ UNCHANGED <<drive_image_files_info, idx, scratch, downloaded_files_map, ocr_tasks>>
    /\ UNCHANGED <<taskVars, sinkVars>>

(***************************************************************************)
(* main(): the sinks, the summary and the cleanup, lines 552-618.          *)
(***************************************************************************)
\* lines 554-572: the report file is written, one section per successful image
WriteMarkdown ==
    /\ mpc = "report"
    /\ document_ocr_results # <<>>
    /\ markdown' = [state |-> "written", sections |-> document_ocr_results]
    /\ mpc' = "sheet"
    /\ UNCHANGED <<sheet, summary, warning>>
    /\ UNCHANGED <<drive_image_files_info, idx, scratch, downloaded_files_map, ocr_tasks>>
    /\ UNCHANGED <<taskVars, aggVars>>

\* variant: a failed report write makes main skip the tabular sink
WriteMarkdownFailSkipsSheet ==
    /\ mpc = "report"
    /\ document_ocr_results # <<>>
    /\ markdown' = [state |-> "failed", sections |-> <<>>]
    /\ mpc' = "summary"
    /\ UNCHANGED <<sheet, summary, warning>>
    /\ UNCHANGED <<drive_image_files_info, idx, scratch, downloaded_files_map, ocr_tasks>>
    /\ UNCHANGED <<taskVars, aggVars>>

\* lines 576-578: the write raises; logged, main goes on
WriteMarkdownFail ==
    /\ mpc = "report"
    /\ document_ocr_results # <<>>
    /\ markdown' = [state |-> "failed", sections |-> <<>>]
    /\ mpc' = "sheet"
    /\ UNCHANGED <<sheet, summary, warning>>
    /\ UNCHANGED <<drive_image_files_info, idx, scratch, downloaded_files_map, ocr_tasks>>
    /\ UNCHANGED <<taskVars, aggVars>>

\* lines 573-575: no successful image, no file
SkipMarkdown ==
    /\ mpc = "report"
    /\ document_ocr_results = <<>>
    /\ mpc' = "sheet"
    /\ UNCHANGED sinkVars
    /\ UNCHANGED <<drive_image_files_info, idx, scratch, downloaded_files_map, ocr_tasks>>
    /\ UNCHANGED <<taskVars, aggVars>>

(***************************************************************************)
(* write_to_google_sheet(), lines 324-381.  The sheet is a sequence of     *)
(* rows, a row a sequence of cells.                                        *)
(***************************************************************************)
\* line 344
header == <<"part_no", "part_name", "car_model", "car_year", "retail_price",
            "wholesale_price", "Original Drive URL", "Time_stamp">>

\* the header a sheet written by an earlier version carries (comment at line 343)
old_header == <<"part_no", "part_name", "car_model", "car_year", "retail_price",
                "wholesale_price", "Cropped", "Original Drive URL", "Time_stamp">>

\* what the sheet may hold when the writer reads it: nothing; the header alone;
\* what a first run wrote; a sheet of the earlier version; rows without a header;
\* a last row whose part number (column A) is empty
SheetContents == <<
    <<>>,
    <<header>>,
    <<header, <<"P1", "name1", "m1", "y1", "r1", "w1", "url1", "ts0">>>>,
    <<old_header>>,
    <<<<"P1", "name1", "m1", "y1", "r1", "w1", "url1", "ts0">>>>,
    <<header, <<"", "name1", "m1", "y1", "r1", "w1", "url1", "ts0">>>> >>

\* lines 335-340: values().get over the range A:A returns, for each row, the
\* cells of column A only, and leaves out the rows after the last one whose
\* column A is filled
values(content) ==
    LET filled == {n \in 1..Len(content) : content[n][1] # ""} IN
    [n \in 1..(IF filled = {} THEN 0 ELSE Max(filled)) |->
        IF content[n][1] = "" THEN <<>> ELSE <<content[n][1]>>]

\* line 346
HeaderWanted(content) ==
    IF Len(values(content)) = 0 THEN TRUE ELSE values(content)[1] # header

\* lines 341 and 355-356
next_row(content) ==
    IF HeaderWanted(content) /\ Len(values(content)) = 0
    THEN Len(values(content)) + 2
    ELSE Len(values(content)) + 1

\* values().update at a row: the cells written replace those of the row, cells to
\* their right stay
UpdateRow(old, new) == new \o SubSeq(old, Len(new) + 1, Len(old))

\* lines 347-354: the header is written at A1
HeaderUpdated(content) ==
    IF content = <<>> THEN <<header>>
    ELSE [content EXCEPT ![1] = UpdateRow(@, header)]

\* lines 359-370: the data is written from row next_row on
DataUpdated(content, start, data) ==
    [n \in 1..Max({Len(content), start + Len(data) - 1}) |->
        IF n >= start /\ n < start + Len(data)
        THEN UpdateRow(IF n <= Len(content) THEN content[n] ELSE <<>>, data[n - start + 1])
        ELSE content[n]]

\* lines 580-585 and 324-374: the service is there, the sheet is read, the header
\* written if wanted, the rows written
WriteSheet(found) ==
    /\ mpc = "sheet"
    /\ sheets_data_to_write # <<>>
    /\ LET headed == IF HeaderWanted(found) THEN HeaderUpdated(found) ELSE found IN
       sheet' = [state |-> "written", rows |-> sheets_data_to_write, found |-> found,
                 content |-> DataUpdated(headed, next_row(found), sheets_data_to_write),
                 header_writes |-> IF HeaderWanted(found) THEN 1 ELSE 0]
    /\ mpc' = "summary"
    /\ UNCHANGED <<markdown, summary, warning>>
    /\ UNCHANGED <<drive_image_files_info, idx, scratch, downloaded_files_map, ocr_tasks>>
    /\ UNCHANGED <<taskVars, aggVars>>

\* lines 376-381: one of the calls to the sink raises; logged, main goes on.  The
\* failing call is the read ("get"), the header write ("header") or the data
\* write ("data"); what was written before it stays
WriteSheetFail(found, call) ==
    /\ mpc = "sheet"
    /\ sheets_data_to_write # <<>>
    /\ call = "header" => HeaderWanted(found)
    /\ sheet' =
          IF call = "get"
          THEN [state |-> "failed", rows |-> sheets_data_to_write, found |-> <<>>,
                content |-> <<>>, header_writes |-> 0]
          ELSE IF call = "header"
          THEN [state |-> "failed", rows |-> sheets_data_to_write, found |-> found,
                content |-> found, header_writes |-> 0]
          ELSE [state |-> "failed", rows |-> sheets_data_to_write, found |-> found,
                content |-> IF HeaderWanted(found) THEN HeaderUpdated(found) ELSE found,
                header_writes |-> IF HeaderWanted(found) THEN 1 ELSE 0]
    /\ mpc' = "summary"
    /\ UNCHANGED <<markdown, summary, warning>>
    /\ UNCHANGED <<drive_image_files_info, idx, scratch, downloaded_files_map, ocr_tasks>>
    /\ UNCHANGED <<taskVars, aggVars>>

\* lines 583 and 267-270: connecting to the sink fails and the process exits
SheetsServiceExit ==
    /\ mpc = "sheet"
    /\ sheets_data_to_write # <<>>
    /\ mpc' = "exited"
    /\ UNCHANGED sinkVars
    /\ UNCHANGED <<drive_image_files_info, idx, scratch, downloaded_files_map, ocr_tasks>>
    /\ UNCHANGED <<taskVars, aggVars>>

\* lines 586-588: no rows
SkipSheet ==
    /\ mpc = "sheet"
    /\ sheets_data_to_write = <<>>
    /\ mpc' = "summary"
    /\ UNCHANGED sinkVars
    /\ UNCHANGED <<drive_image_files_info, idx, scratch, downloaded_files_map, ocr_tasks>>
    /\ UNCHANGED <<taskVars, aggVars>>

\* lines 590-618: the summary and the warning are printed, then every scratch
\* file is removed
SummaryAndCleanup ==
    /\ mpc = "summary"
    /\ summary' = Some([files |-> Len(drive_image_files_info), tasks |-> Len(ocr_tasks),
                        succeeded |-> successful_images_count,
                        failed |-> failed_images_count, tokens |-> total_tokens])
    /\ warning' = (failed_images_count > 0)
    /\ scratch' = [f \in FileNames |-> "absent"]
    /\ mpc' = "done"
    /\ UNCHANGED <<markdown, sheet>>
    /\ UNCHANGED <<drive_image_files_info, idx, downloaded_files_map, ocr_tasks>>
    /\ UNCHANGED <<taskVars, aggVars>>

Next ==
    \/ NoImages
    \/ StartBatch
    \/ DownloadStart
    \/ DownloadFail
    \/ DownloadDone
    \/ JoinAndAggregate
    \/ WriteMarkdown
    \/ WriteMarkdownFail
    \/ SkipMarkdown
    \/ WriteSheet(SheetContents[1])
    \/ \E call \in {"get", "header", "data"} : WriteSheetFail(SheetContents[1], call)
    \/ SheetsServiceExit
    \/ SkipSheet
    \/ SummaryAndCleanup
    \/ \E i \in Tasks : TaskStart(i)
    \/ \E i \in Tasks : \E hangs \in BOOLEAN : Normalized(i, hangs)
    \/ \E i \in Tasks : NormalizeFail(i)
    \/ \E i \in Tasks : \E n \in 1..Len(Responses) : InferReturn(i, Responses[n])
    \/ \E i \in Tasks : \E u \in 1..Len(Usages) : InferRaise(i, Usages[u])

\* the whole run, written to a sheet that is empty when the run reaches it
Spec == Init /\ [][Next]_vars

\* the call of task i comes back, with a response or with an error
InferEnd(i) ==
    \/ \E n \in 1..Len(Responses) : InferReturn(i, Responses[n])
    \/ \E u \in 1..Len(Usages) : InferRaise(i, Usages[u])

\* a step of some launched task
TaskNext ==
    \E i \in Tasks :
        \/ TaskStart(i)
        \/ \E hangs \in BOOLEAN : Normalized(i, hangs)
        \/ NormalizeFail(i)
        \/ InferEnd(i)

\* the event loop runs what can run, and a download, a call that is not hung and
\* a call to a sink come back: while main or some task can take a step, one of
\* them does.  Main and every task take a bounded number of steps, so neither is
\* passed over for ever
FairSpec == Spec /\ WF_vars(Next)

(***************************************************************************)
(* The tabular writer against every content of the sheet.  A behaviour     *)
(* starts where main reaches line 580 after a batch of one or two images   *)
(* whose calls all returned.                                               *)
(***************************************************************************)
\* the state of main at line 580 for the listed files and the response of each
AtSheetStep(files, resp) ==
    LET tasks == [n \in 1..Len(files) |-> [image_path |-> files[n], url |-> web_view_link(n)]]
        res == [n \in 1..Len(files) |->
                   [image_path |-> files[n],
                    extracted_data |-> extracted_data(resp[n].text),
                    usage_metadata |-> resp[n].usage_metadata]]
        a == Aggregated(res, Len(res))
    IN
    /\ drive_image_files_info = files
    /\ mpc = "sheet"
    /\ idx = Len(files) + 1
    /\ scratch = [f \in FileNames |->
                     IF \E n \in 1..Len(files) : files[n] = f THEN "complete" ELSE "absent"]
    /\ downloaded_files_map = {<<web_view_link(n), files[n]>> : n \in 1..Len(files)}
    /\ ocr_tasks = tasks
    /\ tpc = [n \in 1..Len(files) |-> "done"]
    /\ exit_path = [n \in 1..Len(files) |-> "returned"]
    /\ response = resp
    /\ result = res
    /\ overtaken = FALSE
    /\ generate_content_calls = [n \in 1..Len(files) |-> 1]
    /\ hung = {}
    /\ semaphore_ocr = [value |-> CONCURRENCY_OCR, waiters |-> <<>>]
    /\ results_with_urls = res
    /\ document_ocr_results = a.docs
    /\ sheets_data_to_write = a.rows
    /\ total_tokens = a.tokens
    /\ failed_images_count = a.failed
    /\ successful_images_count = a.ok
    /\ markdown = IF a.docs # <<>> THEN [state |-> "written", sections |-> a.docs]
                  ELSE [state |-> "absent", sections |-> <<>>]
    /\ sheet = [state |-> "untouched", rows |-> <<>>, found |-> <<>>, content |-> <<>>,
                header_writes |-> 0]
    /\ summary = None
    /\ warning = FALSE

SheetInit ==
    \E files \in {<<"a.png">>, <<"a.png", "b.png">>} :
        \E choice \in [1..Len(files) -> 1..Len(Responses)] :
            AtSheetStep(files, [n \in 1..Len(files) |-> Responses[choice[n]]])

SheetNext ==
    \/ \E c \in 1..Len(SheetContents) : WriteSheet(SheetContents[c])
    \/ \E c \in 1..Len(SheetContents) : \E call \in {"get", "header", "data"} :
          WriteSheetFail(SheetContents[c], call)
    \/ SheetsServiceExit
    \/ SummaryAndCleanup

SheetSpec == SheetInit /\ [][SheetNext]_vars

(***************************************************************************)
(* The parser of lines 170-200 on the texts a backend may answer with.  A  *)
(* behaviour starts with one image inside the inference call; the call     *)
(* returns a text, and main joins and aggregates.                          *)
(***************************************************************************)
\* one image was fetched and normalized; its task is inside the call of line 165
ParserInit ==
    /\ drive_image_files_info = <<"a.png">>
    /\ mpc = "loop"
    /\ idx = 2
    /\ scratch = [f \in FileNames |-> IF f = "a.png" THEN "complete" ELSE "absent"]
    /\ downloaded_files_map = {<<web_view_link(1), "a.png">>}
    /\ ocr_tasks = <<[image_path |-> "a.png", url |-> web_view_link(1)]>>
    /\ tpc = <<"inferring">>
    /\ exit_path = <<"running">>
    /\ response = <<NoResponse>>
    /\ result = <<NoResult>>
    /\ overtaken = FALSE
    /\ generate_content_calls = <<1>>
    /\ hung = {}
    /\ semaphore_ocr = [value |-> CONCURRENCY_OCR - 1, waiters |-> <<>>]
    /\ results_with_urls = <<>>
    /\ document_ocr_results = <<>>
    /\ sheets_data_to_write = <<>>
    /\ total_tokens = <<0, 0, 0>>
    /\ failed_images_count = 0
    /\ successful_images_count = 0
    /\ markdown = [state |-> "absent", sections |-> <<>>]
    /\ sheet = [state |-> "untouched", rows |-> <<>>, found |-> <<>>, content |-> <<>>,
                header_writes |-> 0]
    /\ summary = None
    /\ warning = FALSE

\* the call returns a response with this text
ParseResponse ==
    \E t \in ParserTexts : InferReturn(1, [text |-> Some(t), usage_metadata |-> Usages[2]])

ParserNext ==
    \/ ParseResponse
    \/ JoinAndAggregate

ParserSpec == ParserInit /\ [][ParserNext]_vars

(***************************************************************************)
(* Properties.                                                             *)
(***************************************************************************)
PostJoin == mpc \in {"report", "sheet", "summary", "done", "exited"}
Inferring == {i \in Tasks : tpc[i] = "inferring"}
Normalizing == {i \in Tasks : tpc[i] = "normalizing"}
PermitsInUse == CONCURRENCY_OCR - semaphore_ocr.value

\* C1: in every reachable state at most CONCURRENCY_OCR instances are inside the
\* inference call
C1_InferenceCap == Cardinality(Inferring) <= CONCURRENCY_OCR

\* the cap is reached and a further instance is kept waiting
C1_Witness ==
    /\ Cardinality(Inferring) = CONCURRENCY_OCR
    /\ \E i \in Tasks : tpc[i] = "waiting"

ReturnedTwoRecords(i) == exit_path[i] = "returned" /\ response[i].text = TwoRecords
TwoRecordsData == Some(<<RecordOf("R1"), RecordOf("R2")>>)

\* exactly one of the launched instances failed; every other returned two records
OneFailure ==
    /\ Len(ocr_tasks) >= 2
    /\ Cardinality({i \in Tasks : ~ReturnedTwoRecords(i)}) = 1

\* instance i ends in this step without data
FailureStep(i) == tpc[i] # "done" /\ tpc'[i] = "done" /\ ~HasData(result'[i])

\* the step touches no other instance, but for handing its permit to a waiter,
\* and leaves main where it is
SiblingsUntouched(i) ==
    /\ mpc' = mpc
    /\ \A j \in Tasks \ {i} :
        /\ result'[j] = result[j]
        /\ response'[j] = response[j]
        /\ exit_path'[j] = exit_path[j]
        /\ tpc'[j] = tpc[j] \/ (tpc[j] = "waiting" /\ tpc'[j] = "normalizing")

\* C3: a failing instance touches no sibling; and when exactly one of M launched
\* instances failed, M outcomes are collected, one of them a failure, the others
\* carry their own two records, and main has gone on to aggregate
C3_FailureIsolation ==
    /\ [][\A i \in Tasks : FailureStep(i) => SiblingsUntouched(i)]_vars
    /\ [](PostJoin /\ OneFailure =>
            /\ Len(results_with_urls) = Len(ocr_tasks)
            /\ failed_images_count = 1
            /\ successful_images_count = Len(ocr_tasks) - 1
            /\ \A i \in Tasks :
                  ReturnedTwoRecords(i) => results_with_urls[i].extracted_data = TwoRecordsData)

\* three instances ran; the second failed at normalization, the others returned two records
C3_Witness ==
    /\ PostJoin /\ OneFailure /\ Len(ocr_tasks) = 3
    /\ exit_path[2] = "normalize_failed"

FileOfUrl(url) == CHOOSE n \in 1..Len(drive_image_files_info) : web_view_link(n) = url
RowUrl(row) == row[7]
IsPlaceholder(row) == row[2] = PLACEHOLDER_NOTE

\* a sequence with every run of equal neighbours squeezed to one element
RECURSIVE Squeeze(_)
Squeeze(q) ==
    IF Len(q) <= 1 THEN q
    ELSE IF q[1] = q[2] THEN Squeeze(Tail(q))
    ELSE <<q[1]>> \o Squeeze(Tail(q))

\* the file names of the launched images that yielded data, in launch order
RECURSIVE NamesWithData(_)
NamesWithData(n) ==
    IF n = 0 THEN <<>>
    ELSE IF HasData(result[n]) THEN Append(NamesWithData(n - 1), ocr_tasks[n].image_path)
    ELSE NamesWithData(n - 1)

\* C5: the collected outcomes, the rows and the report sections follow the input
\* enumeration order whatever the order of completion, and every row carries the
\* URL of the image it was produced for
C5_InputOrderAndOwnUrl ==
    PostJoin =>
        /\ \A i, j \in Tasks : i < j => FileOfUrl(ocr_tasks[i].url) < FileOfUrl(ocr_tasks[j].url)
        /\ \A i \in Tasks :
              /\ results_with_urls[i] = result[i]
              /\ results_with_urls[i].image_path =
                     drive_image_files_info[FileOfUrl(ocr_tasks[i].url)]
        /\ Squeeze([n \in 1..Len(sheets_data_to_write) |-> RowUrl(sheets_data_to_write[n])])
               = [i \in Tasks |-> ocr_tasks[i].url]
        /\ \A n \in 1..Len(sheets_data_to_write) :
              IsPlaceholder(sheets_data_to_write[n]) =>
                  sheets_data_to_write[n][1] =
                      drive_image_files_info[FileOfUrl(RowUrl(sheets_data_to_write[n]))]
        /\ [k \in 1..Len(document_ocr_results) |-> document_ocr_results[k].filename]
               = NamesWithData(Len(ocr_tasks))

\* three images were processed, a later one finished before an earlier one, and
\* two of them share a file name
C5_Witness ==
    /\ PostJoin /\ overtaken
    /\ Len(ocr_tasks) = 3
    /\ ocr_tasks[1].image_path = ocr_tasks[3].image_path
    /\ HasData(result[1]) /\ ~HasData(result[3])

EveryInstanceTerminal == \A i \in Tasks : tpc[i] = "done"

AggregationUntouched ==
    /\ results_with_urls = <<>> /\ document_ocr_results = <<>>
    /\ sheets_data_to_write = <<>> /\ total_tokens = <<0, 0, 0>>
    /\ failed_images_count = 0 /\ successful_images_count = 0

\* C6: while any launched instance is not yet terminal, nothing is aggregated, no
\* sink is written, no summary printed and no scratch file of a launched image
\* deleted; main is past the join only when every instance is terminal
C6_JoinBarrier ==
    /\ PostJoin => EveryInstanceTerminal
    /\ ~EveryInstanceTerminal =>
          /\ AggregationUntouched
          /\ markdown.state = "absent" /\ sheet.state = "untouched" /\ summary = None
          /\ \A i \in Tasks : scratch[ocr_tasks[i].image_path] # "absent"

\* the run of three images is over: both sinks written, the scratch files deleted
C6_Witness ==
    /\ mpc = "done" /\ Len(ocr_tasks) = 3
    /\ markdown.state = "written" /\ sheet.state = "written"
    /\ \A f \in FileNames : scratch[f] = "absent"

RowsWithUrl(url) ==
    {n \in 1..Len(sheets_data_to_write) : RowUrl(sheets_data_to_write[n]) = url}

\* C7: every launched image has rows in the data handed to the tabular sink: as
\* many as its records when it has records, else exactly one placeholder row;
\* and the sink is handed exactly these rows
C7_RowsPerImage ==
    PostJoin =>
        /\ \A i \in Tasks :
              /\ HasData(result[i]) =>
                    /\ Cardinality(RowsWithUrl(ocr_tasks[i].url)) = Len(result[i].extracted_data.v)
                    /\ \A n \in RowsWithUrl(ocr_tasks[i].url) :
                          ~IsPlaceholder(sheets_data_to_write[n])
              /\ ~HasData(result[i]) =>
                    /\ Cardinality(RowsWithUrl(ocr_tasks[i].url)) = 1
                    /\ \A n \in RowsWithUrl(ocr_tasks[i].url) :
                          IsPlaceholder(sheets_data_to_write[n])
        /\ sheet.state = "written" => sheet.rows = sheets_data_to_write

\* every one of three images failed and the sink was written three placeholder rows
C7_Witness ==
    /\ PostJoin /\ Len(ocr_tasks) = 3
    /\ successful_images_count = 0
    /\ sheet.state = "written" /\ Len(sheet.rows) = 3

\* C8: no row handed to the tabular sink has an empty string in any field
C8_NoEmptyField ==
    \A n \in 1..Len(sheets_data_to_write) :
        \A f \in 1..Len(sheets_data_to_write[n]) : sheets_data_to_write[n][f] # ""

\* the usage the backend reported to the first n instances, summed field by field
RECURSIVE ReportedUsage(_)
ReportedUsage(n) ==
    IF n = 0 THEN <<0, 0, 0>>
    ELSE LET t == ReportedUsage(n - 1)
             u == response[n].usage_metadata
         IN IF u = None THEN t ELSE <<t[1] + u.v[1], t[2] + u.v[2], t[3] + u.v[3]>>

\* C9: the batch totals are the field-wise sum of the usage the backend reported
\* to every instance, in its response or attached to its error, failures included
C9_UsageTotals == PostJoin => total_tokens = ReportedUsage(Len(ocr_tasks))

\* no image succeeded: one call raised with usage attached, one returned a text
\* without brackets, one a malformed array; the usage of all three is counted
C9_Witness ==
    /\ PostJoin /\ Len(ocr_tasks) = 3
    /\ exit_path[1] = "raised" /\ response[1].usage_metadata # None
    /\ exit_path[2] = "returned" /\ response[2].text = NoBrackets
    /\ exit_path[3] = "returned" /\ response[3].text = Malformed
    /\ total_tokens = <<6, 3, 9>>

\* image A returned two records, image B a text without brackets, and the call
\* for image C raised
ScenarioABC ==
    /\ Len(ocr_tasks) = 3
    /\ exit_path[1] = "returned" /\ response[1].text = TwoRecords
    /\ exit_path[2] = "returned" /\ response[2].text = NoBrackets
    /\ exit_path[3] = "raised"

\* C10: after aggregation every launched instance is counted once, as succeeded
\* when it yielded a record and as failed otherwise; in the scenario A, B, C the
\* counts are 1 and 2 and there are 4 rows, two for A and a placeholder for B and C
C10_CountsAndScenario ==
    PostJoin =>
        /\ successful_images_count = Cardinality({i \in Tasks : HasData(result[i])})
        /\ failed_images_count = Cardinality({i \in Tasks : ~HasData(result[i])})
        /\ successful_images_count + failed_images_count = Len(ocr_tasks)
        /\ ScenarioABC =>
              /\ successful_images_count = 1 /\ failed_images_count = 2
              /\ Len(sheets_data_to_write) = 4
              /\ RowsWithUrl(ocr_tasks[1].url) = {1, 2}
              /\ RowsWithUrl(ocr_tasks[2].url) = {3} /\ IsPlaceholder(sheets_data_to_write[3])
              /\ RowsWithUrl(ocr_tasks[3].url) = {4} /\ IsPlaceholder(sheets_data_to_write[4])

\* the scenario A, B, C has been aggregated
C10_Witness == PostJoin /\ ScenarioABC

\* how far an instance has come: Pending (created, or waiting for its permit),
\* Normalizing, Inferring, then terminal; the response is parsed in the step that
\* takes the instance from Inferring to its terminal state (lines 170-200 hold no await)
Stage(pc) ==
    CASE pc = "created" -> 0
      [] pc = "waiting" -> 1
      [] pc = "normalizing" -> 2
      [] pc = "inferring" -> 3
      [] pc = "done" -> 4

\* the terminal state of a finished instance
Outcome(i) ==
    IF HasData(result[i]) THEN "Succeeded"
    ELSE IF result[i].extracted_data # None THEN "EmptyResult"
    ELSE "Failed"

\* C11: an instance only moves forward through Pending, Normalizing, Inferring
\* (with parsing) to its terminal state: no step takes it to an earlier stage, it
\* enters Inferring only from Normalizing and returns a parsed response only from
\* Inferring, it becomes terminal in exactly one step, and once terminal nothing
\* of it changes any more
C11_ForwardOnly ==
    [][\A i \in Tasks :
          /\ Stage(tpc'[i]) >= Stage(tpc[i])
          /\ tpc'[i] = "inferring" => tpc[i] \in {"normalizing", "inferring"}
          /\ (exit_path'[i] = "returned" /\ exit_path[i] # "returned") => tpc[i] = "inferring"
          /\ (tpc'[i] = "done") = (exit_path'[i] # "running")
          /\ tpc[i] = "done" =>
                /\ tpc'[i] = "done" /\ exit_path'[i] = exit_path[i]
                /\ result'[i] = result[i] /\ response'[i] = response[i]]_vars

\* the run is over and three instances ended differently: one Succeeded, one
\* Failed at normalization, one Failed in the call; each has stayed as it ended
C11_Witness ==
    /\ mpc = "done" /\ Len(ocr_tasks) = 3
    /\ Outcome(1) = "Succeeded"
    /\ exit_path[2] = "normalize_failed" /\ Outcome(2) = "Failed"
    /\ exit_path[3] = "raised" /\ Outcome(3) = "Failed"

\* the number of inference calls made for every launched image together
RECURSIVE TotalCalls(_)
TotalCalls(n) == IF n = 0 THEN 0 ELSE TotalCalls(n - 1) + generate_content_calls[n]

\* the instance got past normalization
NormalizationSucceeded(i) == tpc[i] = "inferring" \/ exit_path[i] \in {"raised", "returned"}

\* C12: no image ever causes more than one inference call; an image whose
\* normalization succeeded causes exactly one, also when that call raised or its
\* response did not parse, and any other image causes none; so a batch makes no
\* more calls than it has images
C12_NoRetry ==
    /\ \A i \in Tasks :
          /\ generate_content_calls[i] <= 1
          /\ NormalizationSucceeded(i) => generate_content_calls[i] = 1
          /\ ~NormalizationSucceeded(i) => generate_content_calls[i] = 0
    /\ TotalCalls(Len(ocr_tasks)) <= Len(drive_image_files_info)

\* the run is over: the call for the first image raised, the response for the
\* second did not parse, the third image could not be normalized; two calls were made
C12_Witness ==
    /\ mpc = "done" /\ Len(ocr_tasks) = 3
    /\ exit_path[1] = "raised"
    /\ exit_path[2] = "returned" /\ response[2].text = Malformed /\ Outcome(2) = "Failed"
    /\ exit_path[3] = "normalize_failed"
    /\ generate_content_calls = <<1, 1, 0>>

\* the instances inside the block of line 126
PermitHolders == {j \in Tasks : tpc[j] \in {"normalizing", "inferring"}}

\* C13: an instance whose image could not be normalized has ended in a failure
\* outcome, no inference call was made for it and it got no response, its outcome
\* carries no records and no usage, and it holds no permit: the permits in use
\* are those of the instances still inside the block.  After the join it is
\* counted as failed
C13_NormalizeFailure ==
    \A i \in Tasks :
        exit_path[i] = "normalize_failed" =>
            /\ tpc[i] = "done" /\ Outcome(i) = "Failed"
            /\ generate_content_calls[i] = 0 /\ response[i] = NoResponse
            /\ result[i] = [image_path |-> ocr_tasks[i].image_path,
                            extracted_data |-> None, usage_metadata |-> None]
            /\ i \notin PermitHolders
            /\ PermitsInUse = Cardinality(PermitHolders)
            /\ PostJoin => failed_images_count >= 1 /\ semaphore_ocr.value = CONCURRENCY_OCR

\* every permit was taken and an instance waited; normalization failed for a
\* holder, and the waiting instance now runs with the permit that came free
C13_Witness ==
    \E i, j \in Tasks :
        /\ i < j
        /\ exit_path[i] = "normalize_failed"
        /\ tpc[j] = "normalizing"
        /\ Cardinality(PermitHolders) = CONCURRENCY_OCR
        /\ Len(ocr_tasks) > CONCURRENCY_OCR

\* main is past the writing of the report file
PastReport == mpc \in {"sheet", "summary", "done", "exited"}

\* C14: once the report step is over and did not fail, a batch with at least one
\* launched image has a report with one section per launched image, in launch
\* order: the records of an image that has some, a placeholder for any other
C14_SectionPerAttemptedImage ==
    (PastReport /\ Len(ocr_tasks) >= 1 /\ markdown.state # "failed") =>
        /\ markdown.state = "written"
        /\ Len(markdown.sections) = Len(ocr_tasks)
        /\ \A i \in Tasks :
              /\ markdown.sections[i].filename = ocr_tasks[i].image_path
              /\ HasData(result[i]) => markdown.sections[i].data = result[i].extracted_data.v

\* the sink was handed the rows: the writer ran, to its end or to a failing call
SheetAttempted == sheet.state \in {"written", "failed"}

\* C15: a failed report write takes main on to the tabular sink with the
\* aggregated values as they were; no step of either sink, failed or not, changes
\* the counts, the rows or the usage totals; after a failed report write the
\* tabular writer, once the sink is connected, is handed the complete row list;
\* and the summary reports the counts and totals as the aggregation left them
C15_SinkIndependence ==
    /\ [][(markdown.state # "failed" /\ markdown'.state = "failed") =>
              (mpc' = "sheet" /\ (UNCHANGED aggVars))]_vars
    /\ [][(mpc \in {"report", "sheet"}) => (UNCHANGED aggVars)]_vars
    /\ []((markdown.state = "failed" /\ mpc \in {"summary", "done"}) =>
              /\ SheetAttempted
              /\ sheet.rows = sheets_data_to_write
              /\ sheet.rows = Aggregated(results_with_urls, Len(results_with_urls)).rows)
    /\ [](mpc = "done" =>
              /\ summary.v.succeeded = Cardinality({i \in Tasks : HasData(result[i])})
              /\ summary.v.failed = Cardinality({i \in Tasks : ~HasData(result[i])})
              /\ summary.v.tokens = total_tokens)

\* the report write failed; the sheet was then written all the rows of three
\* images, and the summary was printed
C15_Witness ==
    /\ mpc = "done" /\ Len(ocr_tasks) = 3
    /\ markdown.state = "failed"
    /\ sheet.state = "written" /\ Len(sheet.rows) >= 4
    /\ sheet.content = <<header>> \o sheets_data_to_write
    /\ summary.v.succeeded >= 1 /\ summary.v.failed >= 1

\* the first row of the sheet as the writer found it is the expected header
FirstRowIsHeader == IF sheet.found = <<>> THEN FALSE ELSE sheet.found[1] = header

\* C16: a writer that ran to its end issued a header write exactly when it found
\* the sheet empty or with a first row other than the expected header; on a sheet
\* whose first row is the expected header it issued none
C16_HeaderOnlyWhenNeeded ==
    sheet.state = "written" => (sheet.header_writes = 1) = ~FirstRowIsHeader

\* main is over: it returned from its last line, or the process exited
MainOver == mpc \in {"done", "exited"}

\* C17: a run that launched an instance and has ended, whatever happened at the
\* sinks, has printed the summary with the number of launched, succeeded and
\* failed images and the usage totals, and the warning when an image failed
C17_SummaryAlways ==
    (MainOver /\ Len(ocr_tasks) >= 1) =>
        /\ summary # None
        /\ summary.v = [files |-> Len(drive_image_files_info), tasks |-> Len(ocr_tasks),
                        succeeded |-> successful_images_count,
                        failed |-> failed_images_count, tokens |-> total_tokens]
        /\ warning = (failed_images_count > 0)

\* the call of the image has returned this text
Answered(t) == exit_path[1] = "returned" /\ response[1].text = Some(t)

\* C18: whatever prose stands before and after a well-formed fenced array, prose
\* with bracket characters included, the records parsed from the whole text are
\* the records parsed from the fenced array alone
C18_RoundTrip ==
    \A p \in FencedPayloads : \A pre, post \in Prose :
        Answered(pre \o p \o post) =>
            /\ extracted_data(Some(p)) # None
            /\ result[1].extracted_data = extracted_data(Some(p))

\* C19: a response whose top-level value is a mapping, one holding an array of
\* part records included, and a response without a bracketed block yield no
\* records, and the image is counted as failed
C19_RejectsMappingAndBracketless ==
    \A t \in MappingTexts \cup BracketlessTexts :
        Answered(t) =>
            /\ result[1].extracted_data = None
            /\ PostJoin => (failed_images_count = 1 /\ successful_images_count = 0)

\* instance i has been launched and its call is not one that hangs
Live(i) == i \in Tasks /\ i \notin hung
Finished(i) == IF i \in Tasks THEN tpc[i] = "done" ELSE FALSE

\* C20: as long as fewer than CONCURRENCY_OCR calls hang, every launched instance
\* whose own call does not hang reaches its terminal state; and an instance is
\* kept waiting only while every permit is held by an instance inside the block
C20_HangStallsOnlyItself ==
    /\ \A i \in 1..MaxFiles :
          Live(i) ~> (Finished(i) \/ i \in hung \/ Cardinality(hung) >= CONCURRENCY_OCR)
    /\ [](\A i \in Tasks :
             tpc[i] = "waiting" => Cardinality(PermitHolders) = CONCURRENCY_OCR)

\* the call of one instance hangs with its permit; two other instances, one of
\* which had to wait for a permit, have finished
C20_Witness ==
    /\ Len(ocr_tasks) > CONCURRENCY_OCR
    /\ Cardinality(hung) = 1 /\ Cardinality(hung) < CONCURRENCY_OCR
    /\ \A i \in Tasks : IF i \in hung THEN tpc[i] = "inferring" ELSE tpc[i] = "done"
    /\ Cardinality({i \in Tasks : tpc[i] = "done"}) >= 2

\* the array inside the fence of a fenced payload: from its "[" to its "]"
FencedArray(p) ==
    SubSeq(p, Min({n \in 1..Len(p) : p[n] = "["}), Max({n \in 1..Len(p) : p[n] = "]"}))

\* prose that holds a bracketed fragment
HasBlock(q) == \E a, b \in 1..Len(q) : a < b /\ q[a] = "[" /\ q[b] = "]"

\* C21: when the text holds a fenced array and a bare bracketed fragment, before
\* or after the fence, the string handed to json.loads is the fenced array; and
\* when the first block is a bare array, the string handed to json.loads ends at
\* that array's own closing bracket, whatever follows
C21_FencedPreferredBareNonGreedy ==
    /\ \A p \in FencedPayloads : \A pre, post \in Prose :
          (Answered(pre \o p \o post) /\ (HasBlock(pre) \/ HasBlock(post))) =>
              json_string(Strip(pre \o p \o post)) = Some(FencedArray(p))
    /\ \A b \in BareArrays : \A pre \in SeqsUpTo({"w", "s"}, MaxProse) : \A post \in Prose :
          Answered(pre \o b \o post) => json_string(Strip(pre \o b \o post)) = Some(b)

\* the sink was reached by the writer of this run
SinkTouched == sheet.state \in {"written", "failed"}

\* C22: whatever the run wrote to the sink, every row the sink held before the
\* run is still there unchanged, and the data rows start below the last of them,
\* also when the header was written and when column A of a row is empty
C22_AppendOnly ==
    SinkTouched =>
        /\ Len(sheet.content) >= Len(sheet.found)
        /\ \A n \in 1..Len(sheet.found) : sheet.content[n] = sheet.found[n]
        /\ sheet.state = "written" =>
              LET start == Len(sheet.content) - Len(sheet.rows) + 1 IN
              /\ start > Len(sheet.found)
              /\ SubSeq(sheet.content, start, Len(sheet.content)) = sheet.rows

\* a download of the batch is in progress, or the loop has a file left to fetch
DownloadsOutstanding ==
    \/ mpc = "downloading"
    \/ mpc = "loop" /\ idx <= Len(drive_image_files_info)

\* instance i has asked for a permit: it queues, is inside the block, or has left it
Begun(i) ==
    \/ tpc[i] \in {"waiting", "normalizing", "inferring"}
    \/ tpc[i] = "done" /\ exit_path[i] # "no_file"

\* C23: while a download of the batch is pending or in progress, no launched
\* instance has asked for a permit, normalized or called inference
C23_DownloadsBeforeOcr == DownloadsOutstanding => \A i \in Tasks : ~Begun(i)

\* instance i has not read its image yet: the existence test of line 122 and the
\* opening of the file at line 70 are still to come
MayRead(i) == tpc[i] \in {"created", "waiting", "normalizing"}

\* C24: no two instances that are both still running have the same scratch file,
\* and the file a download is writing is not the file of a launched instance that
\* has still to read it; also when two listed files have the same name
C24_ScratchExclusive ==
    /\ \A i, j \in Tasks :
          (i # j /\ tpc[i] # "done" /\ tpc[j] # "done") =>
              ocr_tasks[i].image_path # ocr_tasks[j].image_path
    /\ mpc = "downloading" =>
          \A i \in Tasks : MayRead(i) => ocr_tasks[i].image_path # drive_image_files_info[idx]

\* the instances queued at the semaphore, in the set of the waiters
Queued == {semaphore_ocr.waiters[n] : n \in 1..Len(semaphore_ocr.waiters)}

\* C25: the free permits and the permits of the instances inside the block add up
\* to CONCURRENCY_OCR; an instance that left the block by any path holds none and
\* an instance that returned early never held one; the queue holds exactly the
\* instances that wait, and only while no permit is free; after the join every
\* permit is free
C25_PermitConservation ==
    /\ semaphore_ocr.value >= 0
    /\ semaphore_ocr.value + Cardinality(PermitHolders) = CONCURRENCY_OCR
    /\ \A i \in Tasks :
          exit_path[i] \in {"returned", "raised", "normalize_failed", "no_file"} =>
              tpc[i] = "done" /\ i \notin PermitHolders /\ i \notin Queued
    /\ \A i \in Tasks : exit_path[i] = "no_file" => generate_content_calls[i] = 0
    /\ Queued = {i \in Tasks : tpc[i] = "waiting"}
    /\ Queued # {} => semaphore_ocr.value = 0
    /\ PostJoin => semaphore_ocr = [value |-> CONCURRENCY_OCR, waiters |-> <<>>]

\* more images than permits went through the block and left it by three different
\* paths; main has joined and every permit is free again
C25_Witness ==
    /\ PostJoin
    /\ Len(ocr_tasks) > CONCURRENCY_OCR
    /\ {exit_path[i] : i \in Tasks} = {"returned", "raised", "normalize_failed"}
    /\ \E i \in Tasks : response[i].text = None /\ exit_path[i] = "returned"
    /\ semaphore_ocr.value = CONCURRENCY_OCR

\* some inference call of the run never returns
SomeCallHangs == hung # {}

\* every launched instance ends and main gets past the join, unless a call hangs
InstancesEndAndJoinCompletes ==
    /\ \A i \in 1..MaxFiles : (i \in Tasks) ~> (Finished(i) \/ SomeCallHangs)
    /\ (mpc = "loop") ~> (PostJoin \/ SomeCallHangs)

\* C26: when every download and every inference call returns or raises, every
\* launched instance reaches its terminal state, the join completes and the run
\* that entered the download loop prints the summary
C26_Termination ==
    /\ InstancesEndAndJoinCompletes
    /\ (mpc = "loop") ~> (summary # None \/ SomeCallHangs)

=============================================================================
